---- MODULE Spec2Model ----
(***************************************************************************)
(* A model of the postgres-querybuilder statement builders                 *)
(* (SelectBuilder, InsertBuilder, UpdateBuilder, DeleteBuilder).           *)
(*                                                                         *)
(* Text.  A Rust String is modelled as a sequence of symbols.  A symbol is *)
(* one word ("SELECT", "id"), one space, one punctuation character, one    *)
(* decimal digit, the marker "?" or the sign "$".  Concatenation of Rust   *)
(* strings is concatenation of the sequences, so "id = $12" is             *)
(* <<"id", " ", "=", " ", "$", "1", "2">>.  Vec<String> is a sequence of   *)
(* texts, Option<T> a sequence of length 0 (None) or 1 (Some).             *)
(*                                                                         *)
(* Bindable values (Box<dyn ToSql>) are opaque: each is one TLA+ string.   *)
(***************************************************************************)
EXTENDS Integers, Sequences, FiniteSets

VARIABLES
    kind,     \* which builder was constructed: "select", "insert", "update", "delete"
    self,     \* the builder struct (a record of its fields)
    history,  \* the method calls made on the builder so far, in call order:
              \* each with its name, its arguments and what it returned
    budget    \* number of method calls the caller makes before it renders

vars == <<kind, self, history, budget>>

(***************************************************************************)
(* Bounds of the model.                                                    *)
(***************************************************************************)
MaxCalls == 3
MaxClauseCalls == 5
MaxInsertCalls == 3
MaxOrderCalls == 5
MaxEmbedCalls == 3

(***************************************************************************)
(* Option<T>.                                                              *)
(***************************************************************************)
None == <<>>
Some(x) == <<x>>
is_some(o) == Len(o) > 0
unwrap(o) == o[1]

(***************************************************************************)
(* Formatting of a usize with "{}".                                        *)
(***************************************************************************)
Digit(d) ==
    CASE d = 0 -> "0" [] d = 1 -> "1" [] d = 2 -> "2" [] d = 3 -> "3"
      [] d = 4 -> "4" [] d = 5 -> "5" [] d = 6 -> "6" [] d = 7 -> "7"
      [] d = 8 -> "8" [] d = 9 -> "9"

RECURSIVE usize_to_string(_)
usize_to_string(n) ==
    IF n < 10 THEN <<Digit(n)>> ELSE usize_to_string(n \div 10) \o <<Digit(n % 10)>>

(***************************************************************************)
(* [String]::join(sep) and Iterator::collect::<String>().                  *)
(***************************************************************************)
RECURSIVE join(_, _)
join(list, sep) ==
    IF Len(list) = 0 THEN <<>>
    ELSE IF Len(list) = 1 THEN list[1]
    ELSE list[1] \o sep \o join(Tail(list), sep)

RECURSIVE collect(_)
collect(list) ==
    IF Len(list) = 0 THEN <<>> ELSE list[1] \o collect(Tail(list))

\* Vec::reverse
reverse(list) == [i \in 1..Len(list) |-> list[Len(list) + 1 - i]]

\* `match x { Some(value) => result.push(value), None => () }`
push_some(result, o) == IF is_some(o) THEN Append(result, unwrap(o)) ELSE result

(***************************************************************************)
(* Bucket, the parameter store (crate::bucket is not among the sources:    *)
(* push returns the 1-based position of the value it stores, get_refs      *)
(* yields the stored values in push order).                                *)
(***************************************************************************)
Bucket_new == <<>>
Bucket_push(bucket, value) ==
    [content |-> Append(bucket, value), index |-> Len(bucket) + 1]
Bucket_get_refs(bucket) == bucket

(***************************************************************************)
(* prelude.rs: Join and Order.                                             *)
(***************************************************************************)
Join_Inner(table, constraint) == [tag |-> "Inner", table |-> table, constraint |-> constraint]
Join_Left(table, constraint) == [tag |-> "Left", table |-> table, constraint |-> constraint]
Join_LeftOuter(table, constraint) == [tag |-> "LeftOuter", table |-> table, constraint |-> constraint]

Join_to_string(j) ==
    CASE j.tag = "Inner" ->
            <<"INNER", " ", "JOIN", " ">> \o j.table \o <<" ", "ON", " ">> \o j.constraint
      [] j.tag = "Left" ->
            <<"LEFT", " ", "JOIN", " ">> \o j.table \o <<" ", "ON", " ">> \o j.constraint
      [] j.tag = "LeftOuter" ->
            <<"LEFT", " ", "OUTER", " ", "JOIN", " ">> \o j.table \o <<" ", "ON", " ">> \o j.constraint

Order_Asc(column) == [tag |-> "Asc", column |-> column]
Order_Desc(column) == [tag |-> "Desc", column |-> column]

Order_to_string(o) ==
    CASE o.tag = "Asc" -> o.column \o <<" ", "ASC">>
      [] o.tag = "Desc" -> o.column \o <<" ", "DESC">>

(***************************************************************************)
(* select_builder.rs                                                       *)
(***************************************************************************)
SelectBuilder_new(from) ==
    [columns |-> <<>>, from_table |-> from, conditions |-> <<>>, joins |-> <<>>,
     groups |-> <<>>, order |-> <<>>, limit |-> None, offset |-> None,
     params |-> Bucket_new]

SelectBuilder_select(s, column) == [s EXCEPT !.columns = Append(@, column)]

SelectBuilder_add_where_raw(s, raw) == [s EXCEPT !.conditions = Append(@, raw)]

SelectBuilder_select_to_query(s) ==
    LET columns == IF Len(s.columns) = 0 THEN <<"*">> ELSE join(s.columns, <<",", " ">>)
    IN  <<"SELECT", " ">> \o columns

SelectBuilder_from_to_query(s) == <<"FROM", " ">> \o s.from_table

SelectBuilder_where_to_query(s) ==
    IF Len(s.conditions) > 0
    THEN Some(<<"WHERE", " ">> \o join(s.conditions, <<" ", "AND", " ">>))
    ELSE None

SelectBuilder_group_by_to_query(s) ==
    IF Len(s.groups) > 0
    THEN Some(<<"GROUP", " ", "BY", " ">> \o join(s.groups, <<",", " ">>))
    ELSE None

SelectBuilder_order_by_to_query(s) ==
    IF Len(s.order) > 0
    THEN LET result == [i \in 1..Len(s.order) |-> Order_to_string(s.order[i])]
         IN  Some(<<"ORDER", " ", "BY", " ">> \o join(result, <<",", " ">>))
    ELSE None

SelectBuilder_limit_to_query(s) ==
    IF is_some(s.limit) THEN Some(<<"LIMIT", " ">> \o unwrap(s.limit)) ELSE None

SelectBuilder_offset_to_query(s) ==
    IF is_some(s.offset) THEN Some(<<"OFFSET", " ">> \o unwrap(s.offset)) ELSE None

SelectBuilder_add_param(s, value) ==
    LET r == Bucket_push(s.params, value)
    IN  [self |-> [s EXCEPT !.params = r.content], index |-> r.index]

\* mutant: the sections are pushed as the caller set them, OFFSET before LIMIT
SelectBuilder_get_query_offset_first(s) ==
    LET s1 == <<SelectBuilder_select_to_query(s), SelectBuilder_from_to_query(s)>>
        s2 == push_some(s1, SelectBuilder_where_to_query(s))
        s3 == push_some(s2, SelectBuilder_group_by_to_query(s))
        s4 == push_some(s3, SelectBuilder_order_by_to_query(s))
        s5 == push_some(s4, SelectBuilder_offset_to_query(s))
        sections == push_some(s5, SelectBuilder_limit_to_query(s))
    IN  join(sections, <<" ">>)

SelectBuilder_get_query(s) ==
    LET s1 == <<SelectBuilder_select_to_query(s), SelectBuilder_from_to_query(s)>>
        s2 == push_some(s1, SelectBuilder_where_to_query(s))
        s3 == push_some(s2, SelectBuilder_group_by_to_query(s))
        s4 == push_some(s3, SelectBuilder_order_by_to_query(s))
        s5 == push_some(s4, SelectBuilder_limit_to_query(s))
        sections == push_some(s5, SelectBuilder_offset_to_query(s))
    IN  join(sections, <<" ">>)

SelectBuilder_get_ref_params(s) == Bucket_get_refs(s.params)

SelectBuilder_where_condition(s, raw) == [s EXCEPT !.conditions = Append(@, raw)]

\* mutant: a second call pushes its value and keeps the first fragment
SelectBuilder_limit_first_wins(s, limit) ==
    LET r == Bucket_push(s.params, limit)
    IN  [s EXCEPT !.params = r.content,
                  !.limit = IF is_some(@) THEN @
                            ELSE Some(<<"$">> \o usize_to_string(r.index))]

SelectBuilder_limit(s, limit) ==
    LET r == Bucket_push(s.params, limit)
    IN  [s EXCEPT !.params = r.content, !.limit = Some(<<"$">> \o usize_to_string(r.index))]

SelectBuilder_offset(s, offset) ==
    LET r == Bucket_push(s.params, offset)
    IN  [s EXCEPT !.params = r.content, !.offset = Some(<<"$">> \o usize_to_string(r.index))]

SelectBuilder_inner_join(s, table_name, relation) ==
    [s EXCEPT !.joins = Append(@, Join_Inner(table_name, relation))]

SelectBuilder_left_join(s, table_name, relation) ==
    [s EXCEPT !.joins = Append(@, Join_LeftOuter(table_name, relation))]

SelectBuilder_left_outer_join(s, table_name, relation) ==
    [s EXCEPT !.joins = Append(@, Join_Left(table_name, relation))]

SelectBuilder_group_by(s, field) == [s EXCEPT !.groups = Append(@, field)]

SelectBuilder_order_by(s, field) == [s EXCEPT !.order = Append(@, field)]

(***************************************************************************)
(* insert_builder.rs                                                       *)
(***************************************************************************)
InsertBuilder_new(from) ==
    [with_queries |-> <<>>, table |-> from, fields |-> <<>>, values |-> <<>>,
     returning_fields |-> <<>>, upsert_field |-> None, upsert_set_fields |-> <<>>,
     params |-> Bucket_new]

InsertBuilder_with_queries_to_query(s) ==
    IF Len(s.with_queries) > 0
    THEN LET result == [i \in 1..Len(s.with_queries) |->
                           s.with_queries[i][1] \o <<" ", "AS", " ", "(">>
                             \o s.with_queries[i][2] \o <<")">>]
         IN  Some(<<"WITH", " ">> \o join(result, <<",", " ">>))
    ELSE None

InsertBuilder_from_to_query(s) == <<"INSERT", " ", "INTO", " ">> \o s.table

InsertBuilder_fields_to_query(s) ==
    IF Len(s.fields) > 0
    THEN Some(<<"(">> \o join(s.fields, <<",", " ">>) \o <<")">>)
    ELSE None

InsertBuilder_values_to_query(s) ==
    IF Len(s.values) > 0
    THEN Some(<<"VALUES", " ", "(">> \o join(s.values, <<",", " ">>) \o <<")">>)
    ELSE None

\* mutant: the branch of a target without columns is missing
InsertBuilder_on_conflict_query_always_update(s) ==
    IF is_some(s.upsert_field)
    THEN LET upsert_fields ==
                 join([i \in 1..Len(s.upsert_set_fields) |->
                          s.upsert_set_fields[i] \o <<" ", "=", " ", "EXCLUDED", ".">>
                            \o s.upsert_set_fields[i]],
                      <<",", " ">>)
         IN  Some(<<"ON", " ", "CONFLICT", " ", "(">> \o unwrap(s.upsert_field)
                    \o <<")", " ", "DO", " ", "UPDATE", " ", "SET", " ">> \o upsert_fields)
    ELSE None

InsertBuilder_on_conflict_query(s) ==
    IF is_some(s.upsert_field) /\ Len(s.upsert_set_fields) > 0
    THEN LET upsert_fields ==
                 join([i \in 1..Len(s.upsert_set_fields) |->
                          s.upsert_set_fields[i] \o <<" ", "=", " ", "EXCLUDED", ".">>
                            \o s.upsert_set_fields[i]],
                      <<",", " ">>)
         IN  Some(<<"ON", " ", "CONFLICT", " ", "(">> \o unwrap(s.upsert_field)
                    \o <<")", " ", "DO", " ", "UPDATE", " ", "SET", " ">> \o upsert_fields)
    ELSE IF is_some(s.upsert_field)
    THEN Some(<<"ON", " ", "CONFLICT", " ", "(">> \o unwrap(s.upsert_field)
                \o <<")", " ", "DO", " ", "NOTHING">>)
    ELSE None

InsertBuilder_returning_fields_to_query(s) ==
    IF Len(s.returning_fields) > 0
    THEN Some(<<"RETURNING", " ">> \o join(s.returning_fields, <<",", " ">>))
    ELSE None

InsertBuilder_add_param(s, value) ==
    LET r == Bucket_push(s.params, value)
    IN  [self |-> [s EXCEPT !.params = r.content], index |-> r.index]

InsertBuilder_get_query(s) ==
    LET r1 == push_some(<<>>, InsertBuilder_with_queries_to_query(s))
        r2 == Append(r1, InsertBuilder_from_to_query(s))
        r3 == push_some(r2, InsertBuilder_fields_to_query(s))
        r4 == push_some(r3, InsertBuilder_values_to_query(s))
        r5 == push_some(r4, InsertBuilder_on_conflict_query(s))
        result == push_some(r5, InsertBuilder_returning_fields_to_query(s))
    IN  join(result, <<" ">>)

InsertBuilder_get_ref_params(s) == Bucket_get_refs(s.params)

InsertBuilder_field(s, field) == [s EXCEPT !.fields = Append(@, field)]

InsertBuilder_fields(s, fields) == [s EXCEPT !.fields = @ \o fields]

InsertBuilder_value(s, value) ==
    LET r == Bucket_push(s.params, value)
    IN  [s EXCEPT !.params = r.content,
                  !.values = Append(@, <<"$">> \o usize_to_string(r.index))]

\* The loop of value_fragment over fragment.chars(): the state after the
\* characters from position i on, starting from (params, result, param_count).
RECURSIVE value_fragment_loop(_, _, _, _, _, _)
value_fragment_loop(fragment, values, i, params, result, param_count) ==
    IF i > Len(fragment) THEN [params |-> params, result |-> result]
    ELSE IF fragment[i] = "?"
    THEN LET r == IF param_count + 1 <= Len(values)
                  THEN Bucket_push(params, values[param_count + 1])
                  ELSE Bucket_push(params, "missing_parameter")
         IN  value_fragment_loop(fragment, values, i + 1, r.content,
                                 result \o <<"$">> \o usize_to_string(r.index),
                                 param_count + 1)
    ELSE value_fragment_loop(fragment, values, i + 1, params,
                             result \o <<fragment[i]>>, param_count)

\* mutant: the values are read from the second one on
InsertBuilder_value_fragment_skipping_first(s, fragment, values) ==
    LET r == value_fragment_loop(fragment, values, 1, s.params, <<>>, 1)
    IN  [s EXCEPT !.params = r.params, !.values = Append(@, r.result)]

InsertBuilder_value_fragment(s, fragment, values) ==
    LET r == value_fragment_loop(fragment, values, 1, s.params, <<>>, 0)
    IN  [s EXCEPT !.params = r.params, !.values = Append(@, r.result)]

\* mutant: the trailing arguments are not reversed
InsertBuilder_value_with_fn_unreversed(s, value, wrapper_fn, args) ==
    LET r == Bucket_push(s.params, value)
        prefix == join(wrapper_fn, <<"(">>)
        suffix == collect([idx \in 1..Len(wrapper_fn) |->
                     IF idx <= Len(args) /\ is_some(args[idx])
                     THEN <<",", " ">> \o unwrap(args[idx]) \o <<")">>
                     ELSE <<")">>])
    IN  [s EXCEPT !.params = r.content,
                  !.values = Append(@, prefix \o <<"(", "$">>
                                         \o usize_to_string(r.index) \o suffix)]

InsertBuilder_value_with_fn(s, value, wrapper_fn, args) ==
    LET r == Bucket_push(s.params, value)
        prefix == join(wrapper_fn, <<"(">>)
        rev_args == reverse(args)
        suffix == collect([idx \in 1..Len(wrapper_fn) |->
                     IF idx <= Len(rev_args) /\ is_some(rev_args[idx])
                     THEN <<",", " ">> \o unwrap(rev_args[idx]) \o <<")">>
                     ELSE <<")">>])
    IN  [s EXCEPT !.params = r.content,
                  !.values = Append(@, prefix \o <<"(", "$">>
                                         \o usize_to_string(r.index) \o suffix)]

InsertBuilder_returning(s, fields) == [s EXCEPT !.returning_fields = @ \o fields]

InsertBuilder_with_query(s, name, query) ==
    [s EXCEPT !.with_queries = Append(@, <<name, query>>)]

\* mutant: the columns are pushed to the list instead of replacing it
InsertBuilder_on_conflict_accumulating(s, conflict_field, update_fields) ==
    [s EXCEPT !.upsert_field = Some(conflict_field),
              !.upsert_set_fields = @ \o update_fields]

InsertBuilder_on_conflict(s, conflict_field, update_fields) ==
    [s EXCEPT !.upsert_field = Some(conflict_field),
              !.upsert_set_fields = update_fields]

(***************************************************************************)
(* update_builder.rs                                                       *)
(***************************************************************************)
UpdateBuilder_new(from) ==
    [with_queries |-> <<>>, table |-> from, fields |-> <<>>, from_items |-> <<>>,
     returning_fields |-> <<>>, conditions |-> <<>>, params |-> Bucket_new]

UpdateBuilder_get_values(s) == s.params

UpdateBuilder_with_queries_to_query(s) ==
    IF Len(s.with_queries) > 0
    THEN LET result == [i \in 1..Len(s.with_queries) |->
                           s.with_queries[i][1] \o <<" ", "AS", " ", "(">>
                             \o s.with_queries[i][2] \o <<")">>]
         IN  Some(<<"WITH", " ">> \o join(result, <<",", " ">>))
    ELSE None

UpdateBuilder_table_to_query(s) == <<"UPDATE", " ">> \o s.table

UpdateBuilder_set_to_query(s) ==
    IF Len(s.fields) > 0
    THEN Some(<<"SET", " ">> \o join(s.fields, <<",", " ">>))
    ELSE None

UpdateBuilder_from_items_to_query(s) ==
    IF Len(s.from_items) > 0
    THEN Some(<<"FROM", " ">> \o join(s.from_items, <<",", " ">>))
    ELSE None

UpdateBuilder_returning_fields_to_query(s) ==
    IF Len(s.returning_fields) > 0
    THEN Some(<<"RETURNING", " ">> \o join(s.returning_fields, <<",", " ">>))
    ELSE None

\* mutant: the WHERE section is pushed without looking at the list
UpdateBuilder_where_to_query_unconditional(s) ==
    Some(<<"WHERE", " ">> \o join(s.conditions, <<" ", "AND", " ">>))

UpdateBuilder_where_to_query(s) ==
    IF Len(s.conditions) > 0
    THEN Some(<<"WHERE", " ">> \o join(s.conditions, <<" ", "AND", " ">>))
    ELSE None

UpdateBuilder_add_param(s, value) ==
    LET r == Bucket_push(s.params, value)
    IN  [self |-> [s EXCEPT !.params = r.content], index |-> r.index]

\* mutant: the WHERE section is pushed before the RETURNING section
UpdateBuilder_get_query_where_first(s) ==
    LET r1 == push_some(<<>>, UpdateBuilder_with_queries_to_query(s))
        r2 == Append(r1, UpdateBuilder_table_to_query(s))
        r3 == push_some(r2, UpdateBuilder_set_to_query(s))
        r4 == push_some(r3, UpdateBuilder_from_items_to_query(s))
        r5 == push_some(r4, UpdateBuilder_where_to_query(s))
        result == push_some(r5, UpdateBuilder_returning_fields_to_query(s))
    IN  join(result, <<" ">>)

UpdateBuilder_get_query(s) ==
    LET r1 == push_some(<<>>, UpdateBuilder_with_queries_to_query(s))
        r2 == Append(r1, UpdateBuilder_table_to_query(s))
        r3 == push_some(r2, UpdateBuilder_set_to_query(s))
        r4 == push_some(r3, UpdateBuilder_from_items_to_query(s))
        r5 == push_some(r4, UpdateBuilder_returning_fields_to_query(s))
        result == push_some(r5, UpdateBuilder_where_to_query(s))
    IN  join(result, <<" ">>)

UpdateBuilder_get_ref_params(s) == Bucket_get_refs(s.params)

UpdateBuilder_where_condition(s, raw) == [s EXCEPT !.conditions = Append(@, raw)]

UpdateBuilder_set(s, field, value) ==
    LET r == Bucket_push(s.params, value)
    IN  [s EXCEPT !.params = r.content,
                  !.fields = Append(@, field \o <<" ", "=", " ", "$">>
                                         \o usize_to_string(r.index))]

UpdateBuilder_set_computed(s, field, value) ==
    [s EXCEPT !.fields = Append(@, field \o <<" ", "=", " ">> \o value)]

UpdateBuilder_with_query(s, name, query) ==
    [s EXCEPT !.with_queries = Append(@, <<name, query>>)]

UpdateBuilder_returning(s, fields) == [s EXCEPT !.returning_fields = @ \o fields]

UpdateBuilder_from(s, item) == [s EXCEPT !.from_items = Append(@, item)]

(***************************************************************************)
(* delete_builder.rs                                                       *)
(***************************************************************************)
DeleteBuilder_new(from) ==
    [table |-> from, conditions |-> <<>>, params |-> Bucket_new]

DeleteBuilder_table_to_query(s) == <<"DELETE", " ", "FROM", " ">> \o s.table

DeleteBuilder_where_to_query(s) ==
    IF Len(s.conditions) > 0
    THEN Some(<<"WHERE", " ">> \o join(s.conditions, <<" ", "AND", " ">>))
    ELSE None

DeleteBuilder_add_param(s, value) ==
    LET r == Bucket_push(s.params, value)
    IN  [self |-> [s EXCEPT !.params = r.content], index |-> r.index]

DeleteBuilder_get_query(s) ==
    LET r1 == <<DeleteBuilder_table_to_query(s)>>
        result == push_some(r1, DeleteBuilder_where_to_query(s))
    IN  join(result, <<" ">>)

DeleteBuilder_get_ref_params(s) == Bucket_get_refs(s.params)

DeleteBuilder_where_condition(s, raw) == [s EXCEPT !.conditions = Append(@, raw)]

(***************************************************************************)
(* prelude.rs: the QueryBuilder trait's methods, dispatched on the         *)
(* implementing type, and QueryBuilderWithWhere's provided methods.        *)
(***************************************************************************)
add_param(k, s, value) ==
    CASE k = "select" -> SelectBuilder_add_param(s, value)
      [] k = "insert" -> InsertBuilder_add_param(s, value)
      [] k = "update" -> UpdateBuilder_add_param(s, value)
      [] k = "delete" -> DeleteBuilder_add_param(s, value)

get_query(k, s) ==
    CASE k = "select" -> SelectBuilder_get_query(s)
      [] k = "insert" -> InsertBuilder_get_query(s)
      [] k = "update" -> UpdateBuilder_get_query(s)
      [] k = "delete" -> DeleteBuilder_get_query(s)

get_ref_params(k, s) ==
    CASE k = "select" -> SelectBuilder_get_ref_params(s)
      [] k = "insert" -> InsertBuilder_get_ref_params(s)
      [] k = "update" -> UpdateBuilder_get_ref_params(s)
      [] k = "delete" -> DeleteBuilder_get_ref_params(s)

where_condition(k, s, raw) ==
    CASE k = "select" -> SelectBuilder_where_condition(s, raw)
      [] k = "update" -> UpdateBuilder_where_condition(s, raw)
      [] k = "delete" -> DeleteBuilder_where_condition(s, raw)

\* mutant: rendering empties the parameter store
render_draining(k, s) ==
    [self |-> [s EXCEPT !.params = Bucket_new], text |-> get_query(k, s)]

\* A call of get_query.  It takes &self and only reads the lists to build a
\* new String: the builder after the call is the builder before it.
render(k, s) == [self |-> s, text |-> get_query(k, s)]

\* mutant: the index is taken before the push (0-based)
where_eq_zero_based(k, s, field, value) ==
    LET r == add_param(k, s, value)
        condition == field \o <<" ", "=", " ", "$">> \o usize_to_string(r.index - 1)
    IN  where_condition(k, r.self, condition)

where_eq(k, s, field, value) ==
    LET r == add_param(k, s, value)
        condition == field \o <<" ", "=", " ", "$">> \o usize_to_string(r.index)
    IN  where_condition(k, r.self, condition)

where_ne(k, s, field, value) ==
    LET r == add_param(k, s, value)
        condition == field \o <<" ", "<>", " ", "$">> \o usize_to_string(r.index)
    IN  where_condition(k, r.self, condition)

(***************************************************************************)
(* The arguments callers pass, drawn from small sets.                      *)
(***************************************************************************)
Kinds == {"select", "insert", "update", "delete"}
Tables == {<<"t">>}
Columns == {<<"id">>, <<"name">>}
\* (field, value) pairs of where_eq, where_ne and set
FieldValues == {<<<<"k">>, "42">>, <<<<"id">>, "5">>}
Values == {"42", "5"}
\* limit and offset take an i64
Counts == {"10", "20"}
\* raw conditions: the second one carries a placeholder the caller wrote
RawConditions == {<<"x", " ", "IS", " ", "NULL">>, <<"age", " ", "=", " ", "$", "1">>}
Orders == {Order_Asc(<<"id">>), Order_Desc(<<"name">>)}
JoinArgs == {<<<<"u">>, <<"t", ".", "id", " ", "=", " ", "u", ".", "id">>>>}
FieldLists == {<<<<"id">>>>, <<<<"id">>, <<"name">>>>}
Computed == {<<<<"geom">>, <<"md5", "(", "42", ")">>>>}
FromItems == {<<"tiles">>}
WithQueries == {<<<<"w">>, <<"SELECT", " ", "1">>>>}
ConflictTargets == {<<"id">>, <<"k">>}
UpdateLists == {<<>>, <<<<"a">>>>, <<<<"a">>, <<"b">>>>}
Fragments == {<<"f", "(", "?", ",", " ", "?", ")">>, <<"?">>, <<"now", "(", ")">>}
FragmentValues == {<<>>, <<"x">>, <<"x", "y">>, <<"x", "y", "z">>}
Chains == {<<>>, <<<<"f">>>>, <<<<"f">>, <<"g">>>>}
TrailingArgs ==
    {<<>>, <<Some(<<"a">>)>>, <<None>>,
     <<Some(<<"a">>), Some(<<"b">>)>>, <<Some(<<"a">>), None>>,
     <<None, Some(<<"b">>)>>, <<None, None>>,
     <<Some(<<"a">>), Some(<<"b">>), Some(<<"c">>)>>}

holds_dollar(text) == \E i \in 1..Len(text) : text[i] = "$"

(***************************************************************************)
(* The state machine: one action per public method.                        *)
(***************************************************************************)
new(k, from) ==
    CASE k = "select" -> SelectBuilder_new(from)
      [] k = "insert" -> InsertBuilder_new(from)
      [] k = "update" -> UpdateBuilder_new(from)
      [] k = "delete" -> DeleteBuilder_new(from)

Init ==
    /\ kind \in Kinds
    /\ \E from \in Tables : self = new(kind, from)
    /\ history = <<>>
    /\ budget = MaxCalls

\* A method call that leaves the builder as `next`.  by_hand: the caller pushed
\* a parameter without a fragment (bare add_param) or passed raw text that
\* holds a "$".
Call(next, op, args, ret, by_hand) ==
    /\ Len(history) < budget
    /\ self' = next
    /\ history' = Append(history, [op |-> op, args |-> args, ret |-> ret,
                                   by_hand |-> by_hand])
    /\ UNCHANGED <<kind, budget>>

HasWhere == kind \in {"select", "update", "delete"}

AddParam ==
    \E value \in Values :
        LET r == add_param(kind, self, value)
        IN  Call(r.self, "add_param", <<value>>, <<r.index>>, TRUE)

WhereCondition(domain) ==
    /\ HasWhere
    /\ \E raw \in domain :
          Call(where_condition(kind, self, raw), "where_condition", <<raw>>, <<>>,
               holds_dollar(raw))

WhereEq(domain) ==
    /\ HasWhere
    /\ \E fv \in domain :
          Call(where_eq(kind, self, fv[1], fv[2]), "where_eq", fv, <<>>, FALSE)

WhereNe(domain) ==
    /\ HasWhere
    /\ \E fv \in domain :
          Call(where_ne(kind, self, fv[1], fv[2]), "where_ne", fv, <<>>, FALSE)

SelectColumn(domain) ==
    /\ kind = "select"
    /\ \E column \in domain :
          Call(SelectBuilder_select(self, column), "select", <<column>>, <<>>, FALSE)

AddWhereRaw ==
    /\ kind = "select"
    /\ \E raw \in RawConditions :
          Call(SelectBuilder_add_where_raw(self, raw), "add_where_raw", <<raw>>, <<>>,
               holds_dollar(raw))

Limit(domain) ==
    /\ kind = "select"
    /\ \E limit \in domain :
          Call(SelectBuilder_limit(self, limit), "limit", <<limit>>, <<>>, FALSE)

Offset(domain) ==
    /\ kind = "select"
    /\ \E offset \in domain :
          Call(SelectBuilder_offset(self, offset), "offset", <<offset>>, <<>>, FALSE)

InnerJoin ==
    /\ kind = "select"
    /\ \E j \in JoinArgs :
          Call(SelectBuilder_inner_join(self, j[1], j[2]), "inner_join", j, <<>>, FALSE)

LeftJoin ==
    /\ kind = "select"
    /\ \E j \in JoinArgs :
          Call(SelectBuilder_left_join(self, j[1], j[2]), "left_join", j, <<>>, FALSE)

LeftOuterJoin ==
    /\ kind = "select"
    /\ \E j \in JoinArgs :
          Call(SelectBuilder_left_outer_join(self, j[1], j[2]), "left_outer_join", j,
               <<>>, FALSE)

GroupBy(domain) ==
    /\ kind = "select"
    /\ \E field \in domain :
          Call(SelectBuilder_group_by(self, field), "group_by", <<field>>, <<>>, FALSE)

OrderBy(domain) ==
    /\ kind = "select"
    /\ \E field \in domain :
          Call(SelectBuilder_order_by(self, field), "order_by", <<field>>, <<>>, FALSE)

Field(domain) ==
    /\ kind = "insert"
    /\ \E field \in domain :
          Call(InsertBuilder_field(self, field), "field", <<field>>, <<>>, FALSE)

Fields(domain) ==
    /\ kind = "insert"
    /\ \E fields \in domain :
          Call(InsertBuilder_fields(self, fields), "fields", <<fields>>, <<>>, FALSE)

Value(domain) ==
    /\ kind = "insert"
    /\ \E value \in domain :
          Call(InsertBuilder_value(self, value), "value", <<value>>, <<>>, FALSE)

ValueFragment(fragments, lists) ==
    /\ kind = "insert"
    /\ \E fragment \in fragments, values \in lists :
          Call(InsertBuilder_value_fragment(self, fragment, values), "value_fragment",
               <<fragment, values>>, <<>>, FALSE)

ValueWithFn(domain, chains, trailing) ==
    /\ kind = "insert"
    /\ \E value \in domain, wrapper_fn \in chains, args \in trailing :
          Call(InsertBuilder_value_with_fn(self, value, wrapper_fn, args),
               "value_with_fn", <<value, wrapper_fn, args>>, <<>>, FALSE)

Returning(domain) ==
    /\ kind \in {"insert", "update"}
    /\ \E fields \in domain :
          Call(IF kind = "insert" THEN InsertBuilder_returning(self, fields)
                                  ELSE UpdateBuilder_returning(self, fields),
               "returning", <<fields>>, <<>>, FALSE)

WithQuery(domain) ==
    /\ kind \in {"insert", "update"}
    /\ \E w \in domain :
          Call(IF kind = "insert" THEN InsertBuilder_with_query(self, w[1], w[2])
                                  ELSE UpdateBuilder_with_query(self, w[1], w[2]),
               "with_query", w, <<>>, holds_dollar(w[2]))

OnConflict(targets) ==
    /\ kind = "insert"
    /\ \E conflict_field \in targets, update_fields \in UpdateLists :
          Call(InsertBuilder_on_conflict(self, conflict_field, update_fields),
               "on_conflict", <<conflict_field, update_fields>>, <<>>, FALSE)

Set(domain) ==
    /\ kind = "update"
    /\ \E fv \in domain :
          Call(UpdateBuilder_set(self, fv[1], fv[2]), "set", fv, <<>>, FALSE)

SetComputed(domain) ==
    /\ kind = "update"
    /\ \E c \in domain :
          Call(UpdateBuilder_set_computed(self, c[1], c[2]), "set_computed", c, <<>>,
               holds_dollar(c[2]))

From(domain) ==
    /\ kind = "update"
    /\ \E item \in domain :
          Call(UpdateBuilder_from(self, item), "from", <<item>>, <<>>,
               holds_dollar(item))

\* Every builder, every method.
Next ==
    \/ AddParam
    \/ WhereCondition(RawConditions)
    \/ WhereEq(FieldValues)
    \/ WhereNe(FieldValues)
    \/ SelectColumn(Columns)
    \/ AddWhereRaw
    \/ Limit(Counts)
    \/ Offset(Counts)
    \/ InnerJoin
    \/ LeftJoin
    \/ LeftOuterJoin
    \/ GroupBy(Columns)
    \/ OrderBy(Orders)
    \/ Field(Columns)
    \/ Fields(FieldLists)
    \/ Value(Values)
    \/ ValueFragment({<<"f", "(", "?", ",", " ", "?", ")">>}, {<<"x">>, <<"x", "y">>})
    \/ ValueWithFn(Values, {<<<<"f">>>>}, {<<Some(<<"a">>)>>})
    \/ Returning(FieldLists)
    \/ WithQuery(WithQueries)
    \/ OnConflict({<<"id">>})
    \/ Set(FieldValues)
    \/ SetComputed(Computed)
    \/ From(FromItems)

Spec == Init /\ [][Next]_vars

(***************************************************************************)
(* Reading a rendered text: what the database sees in it.                  *)
(***************************************************************************)
Digits == {"0", "1", "2", "3", "4", "5", "6", "7", "8", "9"}
DigitValue(c) == CHOOSE d \in 0..9 : Digit(d) = c

\* the end of the run of digits that starts at position i
RECURSIVE DigitsEnd(_, _)
DigitsEnd(text, i) ==
    IF i < Len(text) /\ text[i + 1] \in Digits THEN DigitsEnd(text, i + 1) ELSE i

\* the number written by the digits at positions i..j
RECURSIVE Number(_, _, _)
Number(text, i, j) ==
    IF i = j THEN DigitValue(text[j])
    ELSE 10 * Number(text, i, j - 1) + DigitValue(text[j])

\* the indices of the placeholders $N of a text, in text order
RECURSIVE PlaceholdersFrom(_, _)
PlaceholdersFrom(text, i) ==
    IF i > Len(text) THEN <<>>
    ELSE IF text[i] = "$" /\ i < Len(text) /\ text[i + 1] \in Digits
    THEN LET j == DigitsEnd(text, i + 1)
         IN  <<Number(text, i + 1, j)>> \o PlaceholdersFrom(text, j + 1)
    ELSE PlaceholdersFrom(text, i + 1)

Placeholders(text) == PlaceholdersFrom(text, 1)

OccursAt(text, pattern, p) ==
    /\ p >= 1
    /\ p + Len(pattern) - 1 <= Len(text)
    /\ SubSeq(text, p, p + Len(pattern) - 1) = pattern

\* the first position at or after `from` where pattern occurs in text, 0 if none
RECURSIVE FindFrom(_, _, _)
FindFrom(text, pattern, from) ==
    IF from + Len(pattern) - 1 > Len(text) THEN 0
    ELSE IF OccursAt(text, pattern, from) THEN from
    ELSE FindFrom(text, pattern, from + 1)

Find(text, pattern) == FindFrom(text, pattern, 1)

IsPrefix(a, b) == Len(a) <= Len(b) /\ SubSeq(b, 1, Len(a)) = a

Range(f) == {f[i] : i \in DOMAIN f}

\* the pieces of text between the occurrences of the separator
RECURSIVE SplitFrom(_, _, _)
SplitFrom(text, sep, from) ==
    LET p == FindFrom(text, sep, from)
    IN  IF p = 0 THEN <<SubSeq(text, from, Len(text))>>
        ELSE <<SubSeq(text, from, p - 1)>> \o SplitFrom(text, sep, p + Len(sep))

Split(text, sep) == SplitFrom(text, sep, 1)

Text == get_query(kind, self)
Refs == get_ref_params(kind, self)
Manual == \E i \in 1..Len(history) : history[i].by_hand
Last == history[Len(history)]
Called(op) == {i \in 1..Len(history) : history[i].op = op}

(***************************************************************************)
(* C1: on every builder, after any sequence of value-carrying calls (no    *)
(* bare add_param, no hand-written placeholder), the rendered text holds   *)
(* as many placeholders $N as get_ref_params returns references, and the   *)
(* indices in the text are exactly 1..n, each once.                        *)
(***************************************************************************)
C1_PlaceholdersMatchRefs ==
    ~Manual =>
        /\ Len(Placeholders(Text)) = Len(Refs)
        /\ \A n \in 1..Len(Refs) :
              Cardinality({i \in 1..Len(Placeholders(Text)) : Placeholders(Text)[i] = n}) = 1

(***************************************************************************)
(* What a call hands to the parameter store, and the fragment it records.  *)
(***************************************************************************)
ValueCarrying ==
    {"where_eq", "where_ne", "set", "value", "value_fragment", "value_with_fn",
     "limit", "offset"}

Markers(fragment) == Cardinality({i \in 1..Len(fragment) : fragment[i] = "?"})

PushedValues(call) ==
    CASE call.op \in {"where_eq", "where_ne", "set"} -> <<call.args[2]>>
      [] call.op \in {"value", "value_with_fn", "limit", "offset", "add_param"} ->
            <<call.args[1]>>
      [] call.op = "value_fragment" ->
            [i \in 1..Markers(call.args[1]) |->
                IF i <= Len(call.args[2]) THEN call.args[2][i] ELSE "missing_parameter"]
      [] OTHER -> <<>>

Recorded(op, s) ==
    CASE op \in {"where_eq", "where_ne"} -> s.conditions[Len(s.conditions)]
      [] op = "set" -> s.fields[Len(s.fields)]
      [] op \in {"value", "value_fragment", "value_with_fn"} -> s.values[Len(s.values)]
      [] op = "limit" -> s.limit[1]
      [] op = "offset" -> s.offset[1]

\* the lists of fragments that may hold placeholders
FragmentLists(k, s) ==
    CASE k = "select" -> <<s.conditions>>
      [] k = "insert" -> <<s.values>>
      [] k = "update" -> <<s.fields, s.conditions>>
      [] k = "delete" -> <<s.conditions>>

(***************************************************************************)
(* C2: placeholder indices follow call order, not clause order.  In every  *)
(* call the values pushed are appended to the store (the k-th value pushed *)
(* sits at index k and get_ref_params returns the values in push order),   *)
(* add_param returns that index, a value-carrying call embeds exactly the  *)
(* indices of the values it pushed in the fragment it records, that        *)
(* fragment is rendered, and no fragment recorded earlier in a list is     *)
(* changed.  UpdateBuilder: where_eq("k", 42) then set("id", 5) renders    *)
(* "UPDATE t SET id = $2 WHERE k = $1" with references [42, 5].            *)
(***************************************************************************)
C2_Step ==
    LET call == history'[Len(history')]
        before == Refs
        after == Refs'
        fresh == [i \in 1..(Len(after) - Len(before)) |-> Len(before) + i]
    IN  /\ after = before \o PushedValues(call)
        /\ call.op = "add_param" => call.ret = <<Len(after)>>
        /\ call.op \in ValueCarrying =>
              \A fragment \in {Recorded(call.op, self')}, text \in {Text'} :
                  /\ Placeholders(fragment) = fresh
                  /\ Find(text, fragment) > 0
        /\ \A i \in 1..Len(FragmentLists(kind, self)) :
              IsPrefix(FragmentLists(kind, self)[i], FragmentLists(kind, self')[i])

C2_Example ==
    ( /\ kind = "update"
      /\ Len(history) = 2
      /\ history[1].op = "where_eq" /\ history[1].args = <<<<"k">>, "42">>
      /\ history[2].op = "set" /\ history[2].args = <<<<"id">>, "5">> )
    => /\ Text = <<"UPDATE", " ", "t", " ", "SET", " ", "id", " ", "=", " ", "$", "2",
                   " ", "WHERE", " ", "k", " ", "=", " ", "$", "1">>
       /\ Refs = <<"42", "5">>

C2_IndicesFollowCallOrder == [][C2_Step /\ C2_Example']_vars

C2_Witness ==
    /\ kind = "update"
    /\ Len(history) = 2
    /\ history[1].op = "where_eq" /\ history[1].args = <<<<"k">>, "42">>
    /\ history[2].op = "set" /\ history[2].args = <<<<"id">>, "5">>
    /\ Placeholders(Text) = <<2, 1>>

(***************************************************************************)
(* The SELECT clauses alone, to a greater depth: every call passes the     *)
(* next argument of a fixed list, so that repeated calls of a kind differ; *)
(* the conditions are added by where_eq, where_ne, where_condition in turn.*)
(***************************************************************************)
NthColumn(n) == IF n % 2 = 1 THEN <<"id">> ELSE <<"name">>
NthOrder(n) == IF n % 2 = 1 THEN Order_Asc(<<"id">>) ELSE Order_Desc(<<"name">>)

InitClauses ==
    /\ kind = "select"
    /\ \E from \in Tables : self = new(kind, from)
    /\ history = <<>>
    /\ budget = MaxClauseCalls

NextClauses ==
    \/ SelectColumn({NthColumn(Len(self.columns) + 1)})
    \/ Len(self.conditions) % 3 = 0 /\ WhereEq({<<<<"k">>, "42">>})
    \/ Len(self.conditions) % 3 = 1 /\ WhereNe({<<<<"id">>, "5">>})
    \/ Len(self.conditions) % 3 = 2 /\ WhereCondition({<<"x", " ", "IS", " ", "NULL">>})
    \/ GroupBy({NthColumn(Len(self.groups) + 1)})
    \/ OrderBy({NthOrder(Len(self.order) + 1)})
    \/ Limit({"10"})
    \/ Offset({"20"})

SpecClauses == InitClauses /\ [][NextClauses]_vars

(***************************************************************************)
(* Reading the clauses of a rendered SELECT.                               *)
(***************************************************************************)
SelectKeywords ==
    <<  <<"SELECT", " ">>,
        <<" ", "FROM", " ">>,
        <<" ", "WHERE", " ">>,
        <<" ", "GROUP", " ", "BY", " ">>,
        <<" ", "ORDER", " ", "BY", " ">>,
        <<" ", "LIMIT", " ">>,
        <<" ", "OFFSET", " ">>  >>

\* where each keyword of `keywords` first occurs in text (0: nowhere)
KeywordPositions(text, keywords) ==
    [i \in 1..Len(keywords) |-> Find(text, keywords[i])]

\* the text of clause i: from the end of its keyword to the next keyword
ClauseBody(text, keywords, pos, i) ==
    LET later == {pos[j] : j \in 1..Len(keywords)} \cap (pos[i] + 1..Len(text))
        stop == IF later = {} THEN Len(text) + 1
                ELSE CHOOSE p \in later : \A q \in later : p <= q
    IN  SubSeq(text, pos[i] + Len(keywords[i]), stop - 1)

\* the calls of the history whose name is in ops, in call order
CallsOf(ops) == SelectSeq(history, LAMBDA c : c.op \in ops)

(***************************************************************************)
(* C3: SELECT clause order is structural.  Whatever the order of the       *)
(* calls, the rendered text is SELECT <columns or *>, FROM <table>, then   *)
(* those of WHERE, GROUP BY, ORDER BY, LIMIT, OFFSET whose calls were      *)
(* made, in this order; and inside a clause the items are those of the     *)
(* calls of its kind, in call order.                                       *)
(***************************************************************************)
C3_Reading(text, pos) ==
    LET body(i) == ClauseBody(text, SelectKeywords, pos, i)
        selects == CallsOf({"select"})
        wheres == CallsOf({"where_condition", "where_eq", "where_ne", "add_where_raw"})
        groups == CallsOf({"group_by"})
        orders == CallsOf({"order_by"})
    IN  /\ pos[1] = 1 /\ pos[2] > 1
        /\ \A i, j \in 1..7 : (i < j /\ pos[i] > 0 /\ pos[j] > 0) => pos[i] < pos[j]
        /\ \A i \in 1..7 : pos[i] > 0 =>
              FindFrom(text, SelectKeywords[i], pos[i] + 1) = 0
        /\ Split(body(1), <<",", " ">>) =
              IF Len(selects) = 0 THEN << <<"*">> >>
              ELSE [i \in 1..Len(selects) |-> selects[i].args[1]]
        /\ body(2) = self.from_table
        /\ (pos[3] > 0) = (Len(wheres) > 0)
        /\ pos[3] > 0 =>
              \A conditions \in {Split(body(3), <<" ", "AND", " ">>)} :
                 /\ Len(conditions) = Len(wheres)
                 /\ \A i \in 1..Len(wheres) :
                       CASE wheres[i].op = "where_eq" ->
                               IsPrefix(wheres[i].args[1] \o <<" ", "=", " ", "$">>,
                                        conditions[i])
                         [] wheres[i].op = "where_ne" ->
                               IsPrefix(wheres[i].args[1] \o <<" ", "<>", " ", "$">>,
                                        conditions[i])
                         [] OTHER -> conditions[i] = wheres[i].args[1]
        /\ (pos[4] > 0) = (Len(groups) > 0)
        /\ pos[4] > 0 =>
              Split(body(4), <<",", " ">>) = [i \in 1..Len(groups) |-> groups[i].args[1]]
        /\ (pos[5] > 0) = (Len(orders) > 0)
        /\ pos[5] > 0 =>
              Split(body(5), <<",", " ">>) =
                 [i \in 1..Len(orders) |->
                     orders[i].args[1].column
                       \o (IF orders[i].args[1].tag = "Asc" THEN <<" ", "ASC">>
                                                            ELSE <<" ", "DESC">>)]
        /\ (pos[6] > 0) = (Called("limit") # {})
        /\ pos[6] > 0 => Len(body(6)) >= 2 /\ Len(Placeholders(body(6))) = 1
        /\ (pos[7] > 0) = (Called("offset") # {})
        /\ pos[7] > 0 => Len(body(7)) >= 2 /\ Len(Placeholders(body(7))) = 1

C3_ClauseOrderIsStructural ==
    kind = "select" =>
        \A text \in {Text} :
            \A pos \in {KeywordPositions(text, SelectKeywords)} : C3_Reading(text, pos)

\* offset was called before limit, and where_eq before where_ne
C3_Witness ==
    /\ kind = "select"
    /\ \E i, j \in 1..Len(history) :
          i < j /\ history[i].op = "offset" /\ history[j].op = "limit"
    /\ Called("where_eq") # {} /\ Called("where_ne") # {}
    /\ Find(Text, <<" ", "LIMIT", " ">>) > 0
    /\ Find(Text, <<" ", "LIMIT", " ">>) < Find(Text, <<" ", "OFFSET", " ">>)

(***************************************************************************)
(* C4: clause omission.  A builder on which no method was called renders   *)
(* exactly its head ("SELECT * FROM t", "INSERT INTO t", "UPDATE t",       *)
(* "DELETE FROM t").  In every state, a clause whose list is empty (whose  *)
(* option is None) leaves nothing in the text, whatever the other clauses: *)
(* its keyword does not occur, and no separator is left behind (no two     *)
(* spaces in a row, no space at the end).  SELECT renders * exactly when   *)
(* no column was selected.                                                 *)
(***************************************************************************)
Absent(text, word) == \A i \in 1..Len(text) : text[i] # word

C4_Head(k, s) ==
    CASE k = "select" -> <<"SELECT", " ", "*", " ", "FROM", " ">> \o s.from_table
      [] k = "insert" -> <<"INSERT", " ", "INTO", " ">> \o s.table
      [] k = "update" -> <<"UPDATE", " ">> \o s.table
      [] k = "delete" -> <<"DELETE", " ", "FROM", " ">> \o s.table

C4_Omitted(k, s, text) ==
    CASE k = "select" ->
            /\ (s.columns = <<>>) = (text[3] = "*")
            /\ s.conditions = <<>> => Absent(text, "WHERE")
            /\ s.groups = <<>> => Absent(text, "GROUP")
            /\ s.order = <<>> => Absent(text, "ORDER")
            /\ s.limit = None => Absent(text, "LIMIT")
            /\ s.offset = None => Absent(text, "OFFSET")
      [] k = "insert" ->
            /\ s.with_queries = <<>> => Absent(text, "WITH")
            /\ s.fields = <<>> =>
                  ~OccursAt(text, <<" ", "(">>,
                            Find(text, <<"INTO", " ">> \o s.table) + 2 + Len(s.table))
            /\ s.values = <<>> => Absent(text, "VALUES")
            /\ s.upsert_field = None => Absent(text, "CONFLICT")
            /\ s.returning_fields = <<>> => Absent(text, "RETURNING")
      [] k = "update" ->
            /\ s.with_queries = <<>> => Absent(text, "WITH")
            /\ s.fields = <<>> => Absent(text, "SET")
            /\ s.from_items = <<>> => Absent(text, "FROM")
            /\ s.returning_fields = <<>> => Absent(text, "RETURNING")
            /\ s.conditions = <<>> => Absent(text, "WHERE")
      [] k = "delete" ->
            s.conditions = <<>> => Absent(text, "WHERE")

C4_ClauseOmission ==
    \A text \in {Text} :
        /\ history = <<>> => text = C4_Head(kind, self)
        /\ IsPrefix(IF kind = "select" THEN <<"SELECT", " ">> ELSE C4_Head(kind, self), text)
              \/ (kind \in {"insert", "update"} /\ self.with_queries # <<>>)
        /\ C4_Omitted(kind, self, text)
        /\ text[Len(text)] # " "
        /\ \A i \in 1..(Len(text) - 1) : ~(text[i] = " " /\ text[i + 1] = " ")

\* an UPDATE with a SET and a FROM clause and neither WHERE nor RETURNING
C4_Witness ==
    /\ kind = "update"
    /\ self.fields # <<>> /\ self.from_items # <<>>
    /\ self.conditions = <<>> /\ self.returning_fields = <<>>
    /\ Text = <<"UPDATE", " ", "t", " ", "SET", " ", "id", " ", "=", " ", "$", "1",
                " ", "FROM", " ", "tiles">>

(***************************************************************************)
(* C5: every join added to a SelectBuilder is rendered, after FROM <table> *)
(* and before WHERE, in insertion order; a SELECT with joins never renders *)
(* the text of the same builder without them.                              *)
(***************************************************************************)
C5_JoinsAreRendered ==
    (kind = "select" /\ self.joins # <<>>) =>
        \A text \in {Text} :
            LET from == Find(text, <<" ", "FROM", " ">>)
                where == Find(text, <<" ", "WHERE", " ">>)
                at(i) == Find(text, Join_to_string(self.joins[i]))
            IN  /\ \A i \in 1..Len(self.joins) :
                      /\ at(i) > from
                      /\ where > 0 => at(i) < where
                /\ \A i, j \in 1..Len(self.joins) : i < j => at(i) <= at(j)
                /\ text # get_query(kind, [self EXCEPT !.joins = <<>>])

(***************************************************************************)
(* The INSERT builder alone, with the full argument sets of on_conflict,   *)
(* value_fragment and value_with_fn.                                       *)
(***************************************************************************)
InitInsert ==
    /\ kind = "insert"
    /\ \E from \in Tables : self = new(kind, from)
    /\ history = <<>>
    /\ budget = MaxInsertCalls

NextUpsert ==
    \/ OnConflict(ConflictTargets)
    \/ Value(Values)
    \/ Field({<<"id">>})
    \/ Returning(FieldLists)

SpecUpsert == InitInsert /\ [][NextUpsert]_vars

NextFragment ==
    \/ ValueFragment(Fragments, FragmentValues)
    \/ Value(Values)
    \/ AddParam

SpecFragment == InitInsert /\ [][NextFragment]_vars

NextValueFn ==
    \/ ValueWithFn({"v"}, Chains, TrailingArgs)
    \/ Value(Values)

SpecValueFn == InitInsert /\ [][NextValueFn]_vars

(***************************************************************************)
(* Reading the upsert clause of a rendered INSERT: from ON CONFLICT to     *)
(* RETURNING or to the end of the text (<<>> when there is none).          *)
(***************************************************************************)
UpsertClause(text) ==
    LET p == Find(text, <<"ON", " ", "CONFLICT">>)
        r == FindFrom(text, <<" ", "RETURNING", " ">>, p + 1)
    IN  IF p = 0 THEN <<>>
        ELSE SubSeq(text, p, IF r = 0 THEN Len(text) ELSE r - 1)

\* what the clause must read, given the target and the columns to update
UpsertReads(clause, target, columns) ==
    LET head == <<"ON", " ", "CONFLICT", " ", "(">> \o target \o <<")", " ", "DO", " ">>
        rest == SubSeq(clause, Len(head) + 1, Len(clause))
    IN  /\ IsPrefix(head, clause)
        /\ IF columns = <<>> THEN rest = <<"NOTHING">>
           ELSE /\ IsPrefix(<<"UPDATE", " ", "SET", " ">>, rest)
                /\ \A items \in {Split(SubSeq(rest, 5, Len(rest)), <<",", " ">>)} :
                      /\ Len(items) = Len(columns)
                      /\ \A i \in 1..Len(columns) :
                            items[i] = columns[i] \o <<" ", "=", " ", "EXCLUDED", ".">>
                                         \o columns[i]

(***************************************************************************)
(* C6: upsert rendering.  With a conflict target set and update columns    *)
(* c1..cn (n > 0) the text holds, once, ON CONFLICT (<target>) DO UPDATE   *)
(* SET c1 = EXCLUDED.c1, ..., cn = EXCLUDED.cn; with a target and no       *)
(* column, ON CONFLICT (<target>) DO NOTHING; when on_conflict was never   *)
(* called, no ON CONFLICT at all.  The clause follows VALUES (...) and     *)
(* precedes RETURNING.                                                     *)
(***************************************************************************)
C6_UpsertRendering ==
    kind = "insert" =>
        \A text \in {Text} :
            \A p \in {Find(text, <<"ON", " ", "CONFLICT">>)} :
                /\ Called("on_conflict") = {} =>
                      /\ self.upsert_field = None
                      /\ Absent(text, "ON") /\ Absent(text, "CONFLICT")
                /\ Called("on_conflict") # {} => is_some(self.upsert_field)
                /\ is_some(self.upsert_field) =>
                      /\ p > 0
                      /\ FindFrom(text, <<"ON", " ", "CONFLICT">>, p + 1) = 0
                      /\ UpsertReads(UpsertClause(text), unwrap(self.upsert_field),
                                     self.upsert_set_fields)
                      /\ self.values # <<>> =>
                            /\ Find(text, <<"VALUES", " ", "(">>) > 0
                            /\ Find(text, <<"VALUES", " ", "(">>) < p
                            /\ text[p - 2] = ")"
                      /\ self.returning_fields # <<>> =>
                            FindFrom(text, <<" ", "RETURNING", " ">>, p) > 0

\* both forms, each between a VALUES and a RETURNING clause
C6_Witness ==
    /\ kind = "insert"
    /\ self.values # <<>> /\ self.returning_fields # <<>>
    /\ is_some(self.upsert_field)
    /\ Len(self.upsert_set_fields) = 2
    /\ UpsertClause(Text) =
          <<"ON", " ", "CONFLICT", " ", "(", "id", ")", " ", "DO", " ", "UPDATE", " ",
            "SET", " ", "a", " ", "=", " ", "EXCLUDED", ".", "a", ",", " ",
            "b", " ", "=", " ", "EXCLUDED", ".", "b">>

(***************************************************************************)
(* C7: at most one conflict target, the last call wins.  After every call  *)
(* the upsert clause reads the target and the columns of the most recent   *)
(* on_conflict call and nothing of the earlier ones (DO NOTHING when that  *)
(* call gave no column); on_conflict changes no other field of the builder *)
(* and pushes no parameter.                                                *)
(***************************************************************************)
C7_LastWins ==
    \A made \in {CallsOf({"on_conflict"})} :
        made # <<>> =>
            /\ self.upsert_field = Some(made[Len(made)].args[1])
            /\ self.upsert_set_fields = made[Len(made)].args[2]
            /\ UpsertReads(UpsertClause(Text), made[Len(made)].args[1],
                           made[Len(made)].args[2])

C7_Frame ==
    history'[Len(history')].op = "on_conflict" =>
        /\ self'.params = self.params
        /\ self'.with_queries = self.with_queries
        /\ self'.table = self.table
        /\ self'.fields = self.fields
        /\ self'.values = self.values
        /\ self'.returning_fields = self.returning_fields

C7_LastConflictTargetWins ==
    /\ [](kind = "insert" => C7_LastWins)
    /\ [][kind = "insert" => C7_Frame]_vars

\* on_conflict(t, [a]) and later on_conflict(t', []): DO NOTHING
C7_Witness ==
    /\ kind = "insert"
    /\ \E i, j \in Called("on_conflict") :
          /\ i < j
          /\ history[i].args[2] = << <<"a">> >>
          /\ history[j].args[2] = <<>>
          /\ \A l \in Called("on_conflict") : l <= j
    /\ self.values # <<>>
    /\ UpsertClause(Text) =
          <<"ON", " ", "CONFLICT", " ", "(", "k", ")", " ", "DO", " ", "NOTHING">>

(***************************************************************************)
(* Reading a VALUES entry back: every placeholder $N replaced by the       *)
(* marker "?".                                                             *)
(***************************************************************************)
RECURSIVE WithMarkersFrom(_, _)
WithMarkersFrom(text, i) ==
    IF i > Len(text) THEN <<>>
    ELSE IF text[i] = "$" /\ i < Len(text) /\ text[i + 1] \in Digits
    THEN <<"?">> \o WithMarkersFrom(text, DigitsEnd(text, i + 1) + 1)
    ELSE <<text[i]>> \o WithMarkersFrom(text, i + 1)

WithMarkers(text) == WithMarkersFrom(text, 1)

(***************************************************************************)
(* C8: fragment expansion.  A call value_fragment(fragment, values) on a   *)
(* store of k entries appends to the store one entry per "?" of the        *)
(* fragment, the i-th being values[i] when it exists and the sentinel      *)
(* "missing_parameter" otherwise; it appends exactly one entry to the      *)
(* VALUES list, which is the fragment with its i-th "?" replaced by        *)
(* $(k + i) and every other character unchanged; it changes nothing else.  *)
(* The call is defined for every fragment and every list of values.        *)
(* "f(?, ?)" with [x, y] on an empty store gives "f($1, $2)" and the store *)
(* [x, y].                                                                 *)
(***************************************************************************)
C8_Step ==
    history'[Len(history')].op = "value_fragment" =>
        \A fragment \in {history'[Len(history')].args[1]},
           values \in {history'[Len(history')].args[2]},
           entry \in {self'.values[Len(self'.values)]},
           before \in {Refs}, after \in {Refs'} :
            /\ Len(after) = Len(before) + Markers(fragment)
            /\ SubSeq(after, 1, Len(before)) = before
            /\ \A i \in 1..Markers(fragment) :
                  after[Len(before) + i] =
                      IF i <= Len(values) THEN values[i] ELSE "missing_parameter"
            /\ self'.values = Append(self.values, entry)
            /\ Placeholders(entry) = [i \in 1..Markers(fragment) |-> Len(before) + i]
            /\ WithMarkers(entry) = fragment
            /\ Len(entry) >= Len(fragment)
            /\ self' = [self EXCEPT !.params = self'.params, !.values = self'.values]
            /\ (fragment = <<"f", "(", "?", ",", " ", "?", ")">>
                  /\ values = <<"x", "y">> /\ before = <<>>) =>
                  /\ entry = <<"f", "(", "$", "1", ",", " ", "$", "2", ")">>
                  /\ after = <<"x", "y">>

\* no fragment and no list of values makes the call fail
C8_Total ==
    \A fragment \in Fragments, values \in FragmentValues :
        Len(InsertBuilder_value_fragment(self, fragment, values).values)
            = Len(self.values) + 1

C8_FragmentExpansion == [](kind = "insert" => C8_Total) /\ [][C8_Step]_vars

\* more markers than values, on a store that is not empty
C8_Witness ==
    /\ kind = "insert"
    /\ Len(history) = 2
    /\ history[2].op = "value_fragment"
    /\ history[2].args = <<<<"f", "(", "?", ",", " ", "?", ")">>, <<"x">>>>
    /\ Refs = <<"42", "x", "missing_parameter">>
    /\ self.values[2] = <<"f", "(", "$", "2", ",", " ", "$", "3", ")">>

(***************************************************************************)
(* Reading a chain of function calls.  Closing(a) is what closes a         *)
(* function whose trailing argument is a; Nested(fns, args, i, inner) is   *)
(* fns[i](fns[i+1](... fns[n](inner, args[n]) ..., args[i+1]), args[i]).   *)
(***************************************************************************)
Closing(a) == IF is_some(a) THEN <<",", " ">> \o unwrap(a) \o <<")">> ELSE <<")">>

RECURSIVE Nested(_, _, _, _)
Nested(fns, args, i, inner) ==
    IF i > Len(fns) THEN inner
    ELSE fns[i] \o <<"(">> \o Nested(fns, args, i + 1, inner) \o Closing(args[i])

\* the list of trailing arguments, with None for the functions beyond its end
Padded(args, n) == [i \in 1..n |-> IF i <= Len(args) THEN args[i] ELSE None]

\* the steps that are calls of value_with_fn push the value once, at the end
\* of the store, and record one VALUES entry, which reads as `reading` says
ValueWithFnStep(applies(_, _), reading(_, _, _)) ==
    history'[Len(history')].op = "value_with_fn" =>
        \A value \in {history'[Len(history')].args[1]},
           fns \in {history'[Len(history')].args[2]},
           args \in {history'[Len(history')].args[3]},
           entry \in {self'.values[Len(self'.values)]},
           before \in {Refs}, after \in {Refs'} :
            applies(fns, args) =>
                /\ after = Append(before, value)
                /\ self'.values = Append(self.values, entry)
                /\ entry = reading(fns, args, <<"$">> \o usize_to_string(Len(after)))

SameLength(fns, args) == Len(fns) >= 1 /\ Len(args) = Len(fns)
NoLonger(fns, args) == Len(fns) >= 1 /\ Len(args) <= Len(fns)

FirstNamedInnermost(fns, args, inner) == Nested(reverse(fns), reverse(args), 1, inner)
FirstNamedOutermost(fns, args, inner) == Nested(fns, args, 1, inner)
ByPosition(fns, args, inner) == Nested(fns, Padded(args, Len(fns)), 1, inner)

(***************************************************************************)
(* C9, as stated: value_with_fn(value, [f_1..f_n], [a_1..a_n]) pushes      *)
(* value once and records the single VALUES entry                          *)
(* f_n(f_{n-1}(...f_1($idx, a_1)..., a_{n-1}), a_n), the first-named       *)
(* function innermost and the last trailing argument in the outermost      *)
(* function.                                                               *)
(***************************************************************************)
C9_FirstNamedInnermost == [][ValueWithFnStep(SameLength, FirstNamedInnermost)]_vars

(***************************************************************************)
(* C9, amended: value_with_fn(value, [f_1..f_n], [a_1..a_n]), n >= 1,      *)
(* pushes value once and records the single VALUES entry                   *)
(* f_1(f_2(...f_n($idx, a_n)..., a_2), a_1): the first-named function is   *)
(* the outermost one, every f_i is closed with its own a_i, and the        *)
(* outermost function receives the first trailing argument.                *)
(***************************************************************************)
C9_FirstNamedOutermost == [][ValueWithFnStep(SameLength, FirstNamedOutermost)]_vars

\* value_with_fn(v, [f, g], [a, b]) on a store of one entry: f(g($2, b), a)
C9_Witness ==
    /\ kind = "insert"
    /\ Len(history) = 2
    /\ history[2].op = "value_with_fn"
    /\ history[2].args[2] = <<<<"f">>, <<"g">>>>
    /\ history[2].args[3] = <<Some(<<"a">>), Some(<<"b">>)>>
    /\ Len(Refs) = 2
    /\ self.values[2] = <<"f", "(", "g", "(", "$", "2", ",", " ", "b", ")",
                          ",", " ", "a", ")">>

(***************************************************************************)
(* C10: in value_with_fn the trailing arguments are matched to the         *)
(* functions by position.  For every chain and every list of arguments no  *)
(* longer than the chain, wrapper_fn[i] is closed with ", a)" exactly when *)
(* args[i] exists and is Some(a), and with ")" when args[i] is None or     *)
(* absent.                                                                 *)
(***************************************************************************)
C10_ArgumentsMatchedByPosition == [][ValueWithFnStep(NoLonger, ByPosition)]_vars

(***************************************************************************)
(* The clause methods of the INSERT and UPDATE builders alone, to a        *)
(* greater depth: repeated calls of a method pass different arguments.     *)
(***************************************************************************)
NthWithQuery(n) ==
    IF n % 2 = 1 THEN <<<<"w">>, <<"SELECT", " ", "1">>>>
                 ELSE <<<<"v">>, <<"SELECT", " ", "2">>>>
NthFromItem(n) == IF n % 2 = 1 THEN <<"tiles">> ELSE <<"areas">>
NthReturning(n) == IF n % 2 = 1 THEN <<<<"id">>, <<"name">>>> ELSE <<<<"k">>>>

InitOrder ==
    /\ kind \in {"insert", "update"}
    /\ \E from \in Tables : self = new(kind, from)
    /\ history = <<>>
    /\ budget = MaxOrderCalls

NextOrder ==
    \/ WithQuery({NthWithQuery(Len(self.with_queries) + 1)})
    \/ Returning({NthReturning(Len(self.returning_fields) + 1)})
    \/ Len(self.fields) % 2 = 0 /\ Field({<<"id">>})
    \/ Len(self.fields) % 2 = 1 /\ Fields({<<<<"name">>, <<"k">>>>})
    \/ Value({IF Len(self.values) % 2 = 0 THEN "42" ELSE "5"})
    \/ OnConflict({<<"id">>})
    \/ Len(self.fields) % 2 = 0 /\ Set({<<<<"id">>, "5">>})
    \/ Len(self.fields) % 2 = 1 /\ SetComputed(Computed)
    \/ From({NthFromItem(Len(self.from_items) + 1)})
    \/ kind = "update" /\ Len(self.conditions) % 2 = 0 /\ WhereEq({<<<<"k">>, "42">>})
    \/ kind = "update" /\ Len(self.conditions) % 2 = 1
          /\ WhereCondition({<<"x", " ", "IS", " ", "NULL">>})

SpecOrder == InitOrder /\ [][NextOrder]_vars

(***************************************************************************)
(* What the claimed layout makes of the calls made so far.                 *)
(***************************************************************************)
\* the positions in the history of the calls whose name is in ops, in order
IndicesOf(ops) ==
    SelectSeq([i \in 1..Len(history) |-> i], LAMBDA i : history[i].op \in ops)

\* the number of values pushed by the first i calls
RECURSIVE PushedUpTo(_)
PushedUpTo(i) ==
    IF i = 0 THEN 0 ELSE PushedUpTo(i - 1) + Len(PushedValues(history[i]))

RECURSIVE Concat(_)
Concat(lists) ==
    IF lists = <<>> THEN <<>> ELSE lists[1] \o Concat(SubSeq(lists, 2, Len(lists)))

\* the items, each but the first preceded by the separator
RECURSIVE SeparatedBy(_, _)
SeparatedBy(items, sep) ==
    IF items = <<>> THEN <<>>
    ELSE IF Len(items) = 1 THEN items[1]
    ELSE items[1] \o sep \o SeparatedBy(SubSeq(items, 2, Len(items)), sep)

\* keyword and items joined by the separator; nothing when there is no item
Clause(keyword, items, sep, closing) ==
    IF items = <<>> THEN <<>>
    ELSE << keyword \o SeparatedBy(items, sep) \o closing >>

Placeholder(i) == <<"$">> \o usize_to_string(PushedUpTo(i))

ExpectedWith ==
    Clause(<<"WITH", " ">>,
           [n \in 1..Len(IndicesOf({"with_query"})) |->
               history[IndicesOf({"with_query"})[n]].args[1] \o <<" ", "AS", " ", "(">>
                 \o history[IndicesOf({"with_query"})[n]].args[2] \o <<")">>],
           <<",", " ">>, <<>>)

ExpectedReturning ==
    Clause(<<"RETURNING", " ">>,
           Concat([n \in 1..Len(IndicesOf({"returning"})) |->
                      history[IndicesOf({"returning"})[n]].args[1]]),
           <<",", " ">>, <<>>)

ExpectedInsert ==
    LET named == IndicesOf({"field", "fields"})
        valued == IndicesOf({"value"})
        upserts == IndicesOf({"on_conflict"})
        last == history[upserts[Len(upserts)]]
    IN  ExpectedWith
        \o << <<"INSERT", " ", "INTO", " ">> \o self.table >>
        \o Clause(<<"(">>,
                  Concat([n \in 1..Len(named) |->
                             IF history[named[n]].op = "field"
                             THEN <<history[named[n]].args[1]>>
                             ELSE history[named[n]].args[1]]),
                  <<",", " ">>, <<")">>)
        \o Clause(<<"VALUES", " ", "(">>,
                  [n \in 1..Len(valued) |-> Placeholder(valued[n])],
                  <<",", " ">>, <<")">>)
        \o (IF upserts = <<>> THEN <<>>
            ELSE IF last.args[2] = <<>>
            THEN << <<"ON", " ", "CONFLICT", " ", "(">> \o last.args[1]
                      \o <<")", " ", "DO", " ", "NOTHING">> >>
            ELSE Clause(<<"ON", " ", "CONFLICT", " ", "(">> \o last.args[1]
                          \o <<")", " ", "DO", " ", "UPDATE", " ", "SET", " ">>,
                        [n \in 1..Len(last.args[2]) |->
                            last.args[2][n] \o <<" ", "=", " ", "EXCLUDED", ".">>
                              \o last.args[2][n]],
                        <<",", " ">>, <<>>))
        \o ExpectedReturning

ExpectedUpdate ==
    LET sets == IndicesOf({"set", "set_computed"})
        froms == IndicesOf({"from"})
        wheres == IndicesOf({"where_eq", "where_ne", "where_condition"})
    IN  ExpectedWith
        \o << <<"UPDATE", " ">> \o self.table >>
        \o Clause(<<"SET", " ">>,
                  [n \in 1..Len(sets) |->
                      history[sets[n]].args[1] \o <<" ", "=", " ">>
                        \o (IF history[sets[n]].op = "set" THEN Placeholder(sets[n])
                            ELSE history[sets[n]].args[2])],
                  <<",", " ">>, <<>>)
        \o Clause(<<"FROM", " ">>,
                  [n \in 1..Len(froms) |-> history[froms[n]].args[1]],
                  <<",", " ">>, <<>>)
        \o ExpectedReturning
        \o Clause(<<"WHERE", " ">>,
                  [n \in 1..Len(wheres) |->
                      CASE history[wheres[n]].op = "where_eq" ->
                              history[wheres[n]].args[1] \o <<" ", "=", " ">>
                                \o Placeholder(wheres[n])
                        [] history[wheres[n]].op = "where_ne" ->
                              history[wheres[n]].args[1] \o <<" ", "<>", " ">>
                                \o Placeholder(wheres[n])
                        [] OTHER -> history[wheres[n]].args[1]],
                  <<" ", "AND", " ">>, <<>>)

(***************************************************************************)
(* C11: INSERT and UPDATE clause order is fixed whatever the call order.  *)
(* The text of an InsertBuilder is its present clauses in the order WITH,  *)
(* INSERT INTO <table>, (<fields>), VALUES (<values>), ON CONFLICT,        *)
(* RETURNING, the text of an UpdateBuilder in the order WITH, UPDATE       *)
(* <table>, SET, FROM, RETURNING, WHERE, separated by one space.  WITH     *)
(* reads "WITH n1 AS (q1), n2 AS (q2)" in insertion order, the lists are   *)
(* joined with ", " and the conditions with " AND ", each in call order.   *)
(***************************************************************************)
C11_InsertUpdateClauseOrder ==
    /\ kind = "insert" => Text = SeparatedBy(ExpectedInsert, <<" ">>)
    /\ kind = "update" => Text = SeparatedBy(ExpectedUpdate, <<" ">>)

\* an UPDATE whose five optional clauses were added in the reverse order
C11_Witness ==
    /\ kind = "update"
    /\ Len(history) = 5
    /\ history[1].op = "where_eq"
    /\ history[2].op = "returning"
    /\ history[3].op = "from"
    /\ history[4].op = "set"
    /\ history[5].op = "with_query"
    /\ Text = <<"WITH", " ", "w", " ", "AS", " ", "(", "SELECT", " ", "1", ")", " ",
                "UPDATE", " ", "t", " ", "SET", " ", "id", " ", "=", " ", "$", "2", " ",
                "FROM", " ", "tiles", " ", "RETURNING", " ", "id", ",", " ", "name", " ",
                "WHERE", " ", "k", " ", "=", " ", "$", "1">>

(***************************************************************************)
(* Every builder, every method, and get_query called at any point.         *)
(***************************************************************************)
GetQuery ==
    LET r == render(kind, self)
    IN  Call(r.self, "get_query", <<>>, <<r.text>>, FALSE)

NextRender ==
    \/ GetQuery
    \/ Next

SpecRender == Init /\ [][NextRender]_vars

(***************************************************************************)
(* C12: get_query is idempotent and free of side effects on every builder. *)
(* A call of get_query in any reachable state leaves every clause list and *)
(* the parameter store as they were, returns the text of that state, and   *)
(* returns the same text as the call before it when that one was a         *)
(* get_query too; so any number of calls in a row return one text.         *)
(***************************************************************************)
C12_Step ==
    history'[Len(history')].op = "get_query" =>
        \A returned \in {history'[Len(history')].ret}, text \in {Text} :
            /\ self' = self
            /\ get_ref_params(kind, self') = Refs
            /\ returned = <<text>>
            /\ get_query(kind, self') = text
            /\ (history # <<>> /\ Last.op = "get_query") => returned = Last.ret

RECURSIVE Greatest(_)
Greatest(indices) ==
    IF indices = <<>> THEN 0
    ELSE LET rest == Greatest(SubSeq(indices, 2, Len(indices)))
         IN  IF indices[1] > rest THEN indices[1] ELSE rest

C13_GreatestIndexIsCount ==
    ~Manual => \A found \in {Placeholders(Text)} : Greatest(found) = Len(Refs)

\* limit called twice: one placeholder left in the text, two references
C13_Witness ==
    /\ kind = "select"
    /\ Len(history) = 3
    /\ history[1].op = "limit" /\ history[2].op = "where_eq" /\ history[3].op = "limit"
    /\ Placeholders(Text) = <<2, 3>>
    /\ Len(Refs) = 3

(***************************************************************************)
(* A query rendered by one builder embedded into another one: the text of  *)
(* a SelectBuilder that holds parameters is passed to UpdateBuilder.from   *)
(* as "(<subquery>) tiles" or to with_query as the query of a prologue.    *)
(* The call record keeps the references of the embedded builder.           *)
(***************************************************************************)
Subqueries ==
    {where_eq("select", SelectBuilder_new(<<"tiles">>), <<"dataset_id">>, "0"),
     where_ne("select",
              where_eq("select", SelectBuilder_new(<<"tiles">>), <<"dataset_id">>, "0"),
              <<"zoom">>, "7")}

FromSubquery ==
    /\ kind = "update"
    /\ \E sub \in Subqueries :
          \E item \in {<<"(">> \o get_query("select", sub) \o <<")", " ", "tiles">>} :
              Call(UpdateBuilder_from(self, item), "from",
                   <<item, get_ref_params("select", sub)>>, <<>>, holds_dollar(item))

WithSubquery ==
    /\ kind = "update"
    /\ \E sub \in Subqueries :
          \E query \in {get_query("select", sub)} :
              Call(UpdateBuilder_with_query(self, <<"w">>, query), "with_query",
                   <<<<"w">>, query, get_ref_params("select", sub)>>, <<>>,
                   holds_dollar(query))

InitEmbed ==
    /\ kind = "update"
    /\ \E from \in Tables : self = new(kind, from)
    /\ history = <<>>
    /\ budget = MaxEmbedCalls

NextEmbed ==
    \/ FromSubquery
    \/ WithSubquery
    \/ WhereEq({<<<<"features", ".", "id">>, "1">>})
    \/ Set({<<<<"id">>, "5">>})
    \/ SetComputed(Computed)

SpecEmbed == InitEmbed /\ [][NextEmbed]_vars

\* the calls that embedded a rendered query, and the references that came
\* with the embedded text
Embeddings == IndicesOf({"from", "with_query"})
EmbeddedText(call) == IF call.op = "from" THEN call.args[1] ELSE call.args[2]
EmbeddedRefs(call) == IF call.op = "from" THEN call.args[2] ELSE call.args[3]

\* (index, bound value) for every placeholder of the final text: those of the
\* builder's own fragments stand for its own references, those of an embedded
\* text for the references of the builder that rendered it
OwnPairs ==
    {<<n, Refs[n]>> :
        n \in {m \in Range(Placeholders(Concat(Concat(FragmentLists(kind, self))))) :
                  m \in 1..Len(Refs)}}

EmbeddedPairs ==
    UNION {{<<n, EmbeddedRefs(history[Embeddings[e]])[n]>> :
               n \in Range(Placeholders(EmbeddedText(history[Embeddings[e]])))} :
           e \in 1..Len(Embeddings)}

(***************************************************************************)
(* C14: in the text a builder renders, every $N is paired with the Nth     *)
(* reference of that builder's get_ref_params, also when the text of a     *)
(* query rendered by another builder that holds parameters is embedded     *)
(* (UpdateBuilder.from with a SelectBuilder subquery, or with_query): every*)
(* index of the text has a reference, no two placeholders that stand for   *)
(* different bound values carry the same index, and no bound value of the  *)
(* embedded query is missing from the references.                          *)
(***************************************************************************)
C14_EmbeddedPlaceholdersArePaired ==
    \A refs \in {Refs}, text \in {Text} :
        /\ \A e \in 1..Len(Embeddings) :
              Find(text, EmbeddedText(history[Embeddings[e]])) > 0
        /\ \A n \in Range(Placeholders(text)) : n \in 1..Len(refs)
        /\ \A p, q \in OwnPairs \cup EmbeddedPairs : p[1] = q[1] => p[2] = q[2]
        /\ \A e \in 1..Len(Embeddings) :
              Range(EmbeddedRefs(history[Embeddings[e]])) \subseteq Range(refs)

(***************************************************************************)
(* C15: each join method records the join kind its name states.  A call of *)
(* inner_join, left_join or left_outer_join with (table, relation) appends *)
(* exactly one join at the end of the join list, and that join renders as  *)
(* "INNER JOIN", "LEFT JOIN" or "LEFT OUTER JOIN" respectively, followed   *)
(* by " <table> ON <relation>" with the table and relation as passed.      *)
(***************************************************************************)
JoinKeyword(op) ==
    CASE op = "inner_join" -> <<"INNER", " ", "JOIN", " ">>
      [] op = "left_join" -> <<"LEFT", " ", "JOIN", " ">>
      [] op = "left_outer_join" -> <<"LEFT", " ", "OUTER", " ", "JOIN", " ">>

C15_Step ==
    history'[Len(history')].op \in {"inner_join", "left_join", "left_outer_join"} =>
        \A call \in {history'[Len(history')]} :
            /\ Len(self'.joins) = Len(self.joins) + 1
            /\ SubSeq(self'.joins, 1, Len(self.joins)) = self.joins
            /\ Join_to_string(self'.joins[Len(self'.joins)]) =
                  JoinKeyword(call.op) \o call.args[1] \o <<" ", "ON", " ">> \o call.args[2]

C15_JoinKindFollowsName == [][C15_Step]_vars

(***************************************************************************)
(* C16: monotonic growth in lockstep.  Across every method call no clause  *)
(* list loses or replaces an entry already recorded (every list of the     *)
(* builder before the call is a prefix of the list after it, the upsert    *)
(* update-columns included), a limit or offset slot once filled keeps its  *)
(* entry, the parameter store never shrinks, and, when every value was     *)
(* pushed by a value-carrying call, every value of the store is referenced *)
(* by a placeholder of the rendered text; also when limit, offset or       *)
(* on_conflict is called more than once.                                   *)
(***************************************************************************)
Slots == {"limit", "offset"}
ClauseLists(s) == DOMAIN s \ (Slots \cup {"table", "from_table", "upsert_field", "params"})

C16_ListsGrow ==
    \A f \in ClauseLists(self) : IsPrefix(self[f], self'[f])

C16_SlotsKeep ==
    \A f \in Slots \cap DOMAIN self : is_some(self[f]) => self'[f] = self[f]

C16_StoreGrows == \A before \in {Refs}, after \in {Refs'} : IsPrefix(before, after)

C16_AllReferenced ==
    ~Manual =>
        \A found \in {Range(Placeholders(Text))} : \A n \in 1..Len(Refs) : n \in found

C16_MonotonicGrowth ==
    [][C16_ListsGrow /\ C16_SlotsKeep /\ C16_StoreGrows /\ C16_AllReferenced']_vars

(***************************************************************************)
(* C17: for every function chain passed to value_with_fn, the empty chain  *)
(* and the chains with fewer or more trailing arguments than functions     *)
(* included, the VALUES entry recorded has as many "(" as ")", holds       *)
(* exactly one placeholder, and the store grows by exactly one value; with *)
(* the empty chain the entry is the bare placeholder $idx.                 *)
(***************************************************************************)
Count(text, symbol) == Cardinality({i \in 1..Len(text) : text[i] = symbol})

C17_Step ==
    history'[Len(history')].op = "value_with_fn" =>
        \A fns \in {history'[Len(history')].args[2]},
           entry \in {self'.values[Len(self'.values)]},
           before \in {Refs}, after \in {Refs'} :
            /\ Len(after) = Len(before) + 1
            /\ Len(self'.values) = Len(self.values) + 1
            /\ Placeholders(entry) = <<Len(after)>>
            /\ Count(entry, "(") = Count(entry, ")")
            /\ fns = <<>> => entry = <<"$">> \o usize_to_string(Len(after))

C17_BalancedParentheses == [][C17_Step]_vars

====
